---- MODULE Spec2Model ----
(***************************************************************************)
(* Model of the puzzle session engine of Marshall-mk/puzzle:               *)
(*   app/src/sessions.py  - the session registry (two global dicts)        *)
(*   app/src/config.py    - the grid-size configuration                    *)
(*   app/src/main.py      - the request handlers /image, /shuffle, /swap,  *)
(*                          /validate, /next_level and /admin/config       *)
(*                                                                         *)
(* Python lists are functions over 0..n-1 (zero-based, as in the source).  *)
(* An optional value is None (the empty tuple) or Some(v) (a 1-tuple).     *)
(* uuid4() is modelled as a generator of fresh identifiers 1, 2, 3, ...    *)
(* datetime values are integers counted in minutes.                        *)
(***************************************************************************)
EXTENDS Integers, Sequences, FiniteSets, TLC

(***************************************************************************)
(* Bounds of the model                                                     *)
(***************************************************************************)
\* number of identifiers uuid4() may hand out in one run
MaxSessions == 2
\* the clock stops MaxSlack minutes after the first expiry instant
MaxSlack == 2
\* random.shuffle outcomes move only the first ShuffleWidth slots
ShuffleWidth == 2
\* the client sends slot indices in -1..MaxIndex (and the list length)
MaxIndex == 3

(***************************************************************************)
(* Program constants                                                       *)
(***************************************************************************)
SESSION_TIMEOUT_MINUTES == 60
IMAGE_EDGE == 512
DEFAULT_GRID_SIZE == 4
MIN_GRID_SIZE == 2
MAX_GRID_SIZE == 10
DEFAULT_COUNTDOWN_TIME == 3
MIN_COUNTDOWN_TIME == 0
MAX_COUNTDOWN_TIME == 60

ADMIN_PASSWORD == "admin123"

None == << >>
Some(v) == << v >>
IsNone(o) == o = << >>
Val(o) == o[1]

Min(a, b) == IF a <= b THEN a ELSE b

(***************************************************************************)
(* The level catalog loaded from app/data/questions.json (main.py:57-58)   *)
(* and the image files present under app/static/images.                    *)
(***************************************************************************)
\* a Python list built from a tuple: indices 0..n-1
List(t) == [ i \in 0 .. (Len(t) - 1) |-> t[i + 1] ]
PyLen(l) == Cardinality(DOMAIN l)
PyRange(n) == [ i \in 0 .. (n - 1) |-> i ]

\* list(image_metadata.keys()), in the file's insertion order
levels == List(<< "level_1", "level_2" >>)

image_metadata ==
    [ level_1 |-> { "a.jpg", "b.jpg" },
      level_2 |-> { "c.jpg" } ]

LevelInCatalog(level) == level \in DOMAIN image_metadata

\* os.path.exists(f"app/static/images/{level}/{image}")
image_files == { << "level_1", "a.jpg" >>, << "level_2", "c.jpg" >> }

PathExists(level, image) == << level, image >> \in image_files

VARIABLES
    game_sessions,      \* sessions.py: token -> session dict
    session_timeouts,   \* sessions.py: token -> expiry datetime
    uuid_count,         \* how many identifiers uuid4() has produced
    now,                \* datetime.now()
    config_file,        \* app/data/config.json: None while the file is absent
    resp,               \* the last request and its response
    twice,              \* history: the list as it was before two equal swaps in a row
    last_access,        \* history: the last puzzle request served, its session and time
    threads             \* worker threads of the pool: the /swap request each one runs

vars ==
    << game_sessions, session_timeouts, uuid_count, now, config_file, resp, twice,
       last_access, threads >>

(***************************************************************************)
(* config.py                                                               *)
(***************************************************************************)
load_config(file) ==
    IF IsNone(file)
    THEN [ grid_size |-> Some(DEFAULT_GRID_SIZE), countdown_time |-> None ]
    ELSE Val(file)

get_grid_size(file) ==
    IF IsNone(load_config(file).grid_size) THEN DEFAULT_GRID_SIZE
    ELSE Val(load_config(file).grid_size)

set_grid_size(file, size) ==
    Some([ load_config(file) EXCEPT !.grid_size = Some(size) ])

get_countdown_time(file) ==
    IF IsNone(load_config(file).countdown_time) THEN DEFAULT_COUNTDOWN_TIME
    ELSE Val(load_config(file).countdown_time)

set_countdown_time(file, seconds) ==
    Some([ load_config(file) EXCEPT !.countdown_time = Some(seconds) ])

(***************************************************************************)
(* sessions.py                                                             *)
(***************************************************************************)
\* faulty variant: an identifier generator that repeats itself
uuid4_repeating(count) == 1

\* str(uuid.uuid4()): the next identifier that was never produced before
uuid4(count) == count + 1

\* datetime.now() + timedelta(minutes=SESSION_TIMEOUT_MINUTES)
Expiry(clock) == clock + SESSION_TIMEOUT_MINUTES

\* the dict literal a new session starts from
NewSession ==
    [ original_positions |-> None,
      shuffled_positions |-> None,
      patches |-> None,
      current_level |-> "level_1",
      current_image_name |-> None,
      start_time |-> None,
      current_shuffled_image_path |-> None ]

\* d[k] = v on a Python dict
DictSet(d, k, v) == [ x \in (DOMAIN d) \cup {k} |-> IF x = k THEN v ELSE d[x] ]

\* d.pop(k, None) for every k of ks
DictPop(d, ks) == [ x \in (DOMAIN d) \ ks |-> d[x] ]

\* "session_id and session_id in game_sessions"
SessionKnown(sessions, session_id) ==
    /\ ~IsNone(session_id)
    /\ Val(session_id) \in DOMAIN sessions

\* faulty variant: the known session is re-initialised when it is resolved
get_or_create_session_resetting(reg, session_id, clock) ==
    IF SessionKnown(reg.s, session_id)
    THEN [ s |-> DictSet(reg.s, Val(session_id), NewSession),
           t |-> DictSet(reg.t, Val(session_id), Expiry(clock)),
           u |-> reg.u,
           id |-> Val(session_id) ]
    ELSE [ s |-> DictSet(reg.s, reg.u + 1, NewSession),
           t |-> DictSet(reg.t, reg.u + 1, Expiry(clock)),
           u |-> reg.u + 1,
           id |-> reg.u + 1 ]

\* get_or_create_session on the registry reg = [s, t, u] at time clock;
\* the result carries the returned session id in field id
get_or_create_session(reg, session_id, clock) ==
    IF SessionKnown(reg.s, session_id)
    THEN [ s |-> reg.s,
           t |-> DictSet(reg.t, Val(session_id), Expiry(clock)),
           u |-> reg.u,
           id |-> Val(session_id) ]
    ELSE LET new_session_id == uuid4(reg.u)
         IN  [ s |-> DictSet(reg.s, new_session_id, NewSession),
               t |-> DictSet(reg.t, new_session_id, Expiry(clock)),
               u |-> reg.u + 1,
               id |-> new_session_id ]

\* faulty variant: a session is collected at the minute its expiry falls on
ExpiredTokens_inclusive(timeouts, clock) ==
    { sid \in DOMAIN timeouts : timeouts[sid] <= clock }

\* the tokens cleanup_expired_sessions collects at time clock
ExpiredTokens(timeouts, clock) ==
    { sid \in DOMAIN timeouts : timeouts[sid] < clock }

\* faulty variant: only the expiry entries of the expired sessions are removed
cleanup_expired_sessions_timeouts_only(reg, clock) ==
    LET expired == ExpiredTokens(reg.t, clock)
    IN  [ s |-> reg.s,
          t |-> DictPop(reg.t, expired),
          u |-> reg.u ]

cleanup_expired_sessions(reg, clock) ==
    LET expired == ExpiredTokens(reg.t, clock)
    IN  [ s |-> DictPop(reg.s, expired),
          t |-> DictPop(reg.t, expired),
          u |-> reg.u ]

\* faulty variant: the expiry entry is left behind
clear_session_keeping_timeout(reg, session_id) ==
    [ s |-> DictPop(reg.s, {session_id}),
      t |-> reg.t,
      u |-> reg.u ]

clear_session(reg, session_id) ==
    [ s |-> DictPop(reg.s, {session_id}),
      t |-> DictPop(reg.t, {session_id}),
      u |-> reg.u ]

Registry == [ s |-> game_sessions, t |-> session_timeouts, u |-> uuid_count ]

(***************************************************************************)
(* main.py: tiles, permutations and rendering                              *)
(***************************************************************************)
\* patch_size = 512 // grid_size
PatchSize(grid) == IMAGE_EDGE \div grid

\* faulty variant: the tiles are numbered down the columns (the swapaxes step
\* on the wrong pair of axes)
Partition_column_major(level, image, grid) ==
    LET patch_size == PatchSize(grid)
        target_size == patch_size * grid
        per_side == target_size \div patch_size
    IN  [ k \in 0 .. (per_side * per_side - 1) |->
            [ level |-> level, image |-> image, edge |-> patch_size,
              row |-> k % per_side, col |-> k \div per_side ] ]

\* the reshape/swapaxes partition of the resized image: (h // patch_size) *
\* (w // patch_size) tiles in row-major order, h = w = patch_size * grid
Partition(level, image, grid) ==
    LET patch_size == PatchSize(grid)
        target_size == patch_size * grid
        per_side == target_size \div patch_size
    IN  [ k \in 0 .. (per_side * per_side - 1) |->
            [ level |-> level, image |-> image, edge |-> patch_size,
              row |-> k \div per_side, col |-> k % per_side ] ]

\* faulty variant: draws with replacement (random.choices) instead of shuffling
RandomShuffles_with_replacement(l) ==
    LET n == PyLen(l)
        w == Min(n, ShuffleWidth)
    IN  { [ i \in 0 .. (n - 1) |-> IF i < w THEN l[f[i]] ELSE l[i] ] :
            f \in [ 0 .. (w - 1) -> 0 .. (w - 1) ] }

\* the outcomes of random.shuffle(l) that the model draws: every permutation
\* of l that leaves the slots from ShuffleWidth on in place
RandomShuffles(l) ==
    LET n == PyLen(l)
        w == Min(n, ShuffleWidth)
        head == { f \in [ 0 .. (w - 1) -> 0 .. (w - 1) ] :
                    \A i, j \in 0 .. (w - 1) : f[i] = f[j] => i = j }
    IN  { [ i \in 0 .. (n - 1) |-> IF i < w THEN l[f[i]] ELSE l[i] ] : f \in head }

\* Python list indexing: a negative index counts from the end, and an index
\* outside -n..n-1 raises IndexError
PyIndex(l, i) == IF i < 0 THEN i + PyLen(l) ELSE i
PyInRange(l, i) == PyIndex(l, i) \in DOMAIN l

\* faulty variant: l[i] = l[j]; l[j] = l[i] (two statements, the first value lost)
SwapList_overwriting(l, i, j) ==
    [ l EXCEPT ![PyIndex(l, i)] = l[PyIndex(l, j)] ]

\* faulty variant: l[i], l[i] = l[i], l[i] (the second index never used)
SwapList_one_index(l, i, j) == l

\* l[i], l[j] = l[j], l[i]
SwapList(l, i, j) ==
    LET a == PyIndex(l, i)
        b == PyIndex(l, j)
        first == [ l EXCEPT ![a] = l[b] ]
    IN  [ first EXCEPT ![b] = l[a] ]

\* faulty variant: only the upper bound is checked
InvalidIndices_upper_only(index1, index2, total_patches) ==
    \/ index1 >= total_patches
    \/ index2 >= total_patches

\* "index1 < 0 or index2 < 0 or index1 >= total or index2 >= total"
InvalidIndices(index1, index2, total_patches) ==
    \/ index1 < 0
    \/ index2 < 0
    \/ index1 >= total_patches
    \/ index2 >= total_patches

\* the composed image of /shuffle: slot -> the tile placed there
RenderShuffle(patches, positions) ==
    [ slot \in DOMAIN patches |-> patches[positions[slot]] ]

\* the reconstruction loop of /swap walks grid * grid slots of the grid size
\* configured now; it raises (IndexError, ValueError) when a slot has no
\* position or its tile is not patch_size wide
SwapRenderFails(patches, positions, grid) ==
    \E slot \in 0 .. (grid * grid - 1) :
        \/ slot \notin DOMAIN positions
        \/ positions[slot] \notin DOMAIN patches
        \/ patches[positions[slot]].edge # PatchSize(grid)

RenderSwap(patches, positions, grid) ==
    [ slot \in 0 .. (grid * grid - 1) |-> patches[positions[slot]] ]

\* faulty variant: compares the lengths of the two lists only
IsCorrect_by_length(shuffled_positions, original_positions) ==
    PyLen(Val(shuffled_positions)) = PyLen(Val(original_positions))

\* "shuffled_positions == original_positions"
IsCorrect(shuffled_positions, original_positions) ==
    shuffled_positions = original_positions

\* "shuffled_positions is None or patches_list is None"
NoPuzzleToSwap(session) ==
    IsNone(session.shuffled_positions) \/ IsNone(session.patches)

\* faulty variant: the check for a missing puzzle is left out
NoPuzzleToValidate_unchecked(session) == FALSE

\* "original_positions is None or shuffled_positions is None"
NoPuzzleToValidate(session) ==
    IsNone(session.original_positions) \/ IsNone(session.shuffled_positions)

(***************************************************************************)
(* Requests and responses                                                  *)
(***************************************************************************)
NoRequest ==
    [ op |-> "start", session_id |-> None, index1 |-> 0, index2 |-> 0,
      status |-> 0, error |-> "", token |-> None, is_correct |-> None,
      level |-> None, before |-> None ]

Request(op, session_id) == [ NoRequest EXCEPT !.op = op, !.session_id = session_id ]

Ok(req) == [ req EXCEPT !.status = 200 ]
Fail(req, status, error) == [ req EXCEPT !.status = status, !.error = error ]

(***************************************************************************)
(* main.py: the request handlers, as functions of the state they read.     *)
(* Each yields the new state and the response (a set of them where the     *)
(* handler draws at random).  File writes are taken to succeed.            *)
(***************************************************************************)
\* GET /image after its sweep (lines 115-153), on the swept registry
serve_image(swept, session_id, clock) ==
    LET got == get_or_create_session(swept, session_id, clock)
        sid == got.id
        session == got.s[sid]
        current_level == session.current_level
        req == [ Request("image", session_id) EXCEPT !.token = Some(sid) ]
        out(sessions, r) == [ s |-> sessions, t |-> got.t, u |-> got.u, r |-> r ]
    IN  IF ~LevelInCatalog(current_level)
        THEN { out(got.s, Fail(req, 404, "Level data not found")) }
        ELSE IF image_metadata[current_level] = {}
        THEN { out(got.s, Fail(req, 404, "No images available in the current level")) }
        ELSE { LET picked == [ got.s EXCEPT ![sid].current_image_name = Some(image_name) ]
               IN  IF ~PathExists(current_level, image_name)
                   THEN out(picked, Fail(req, 404, "Image not found"))
                   ELSE IF IsNone(session.start_time)
                   THEN out([ picked EXCEPT ![sid].start_time = Some(clock) ], Ok(req))
                   ELSE out(picked, Ok(req))
               : image_name \in image_metadata[current_level] }

\* faulty variant: the request resolves its session before it sweeps, so the
\* token it presents is renewed and outlives the sweep
get_image_resolving_first(reg, session_id, clock) ==
    LET got == get_or_create_session(reg, session_id, clock)
        swept == cleanup_expired_sessions([ s |-> got.s, t |-> got.t, u |-> got.u ],
                                          clock)
    IN  { [ o EXCEPT !.r.session_id = session_id ] :
            o \in serve_image(swept, Some(got.id), clock) }

\* GET /image
get_image(reg, session_id, clock) ==
    serve_image(cleanup_expired_sessions(reg, clock), session_id, clock)

\* faulty variant: the old puzzle is dropped before the new one is built, so
\* a shuffle that fails leaves the session without its arrangement
shuffle_image_clearing_first(sessions, file, session_id) ==
    LET req == Request("shuffle", session_id)
        sid == Val(session_id)
        session == sessions[sid]
        current_level == session.current_level
        current_image_name == session.current_image_name
        cleared == [ sessions EXCEPT ![sid].patches = None,
                                     ![sid].original_positions = None,
                                     ![sid].shuffled_positions = None ]
        out(ss, r) == [ s |-> ss, r |-> r ]
    IN  IF ~SessionKnown(sessions, session_id)
        THEN { out(sessions, Fail(req, 400, "Session expired or invalid")) }
        ELSE IF IsNone(current_image_name)
        THEN { out(cleared, Fail(req, 400, "No image selected")) }
        ELSE IF ~LevelInCatalog(current_level)
        THEN { out(cleared, Fail(req, 400, "Invalid level")) }
        ELSE IF Val(current_image_name) \notin image_metadata[current_level]
        THEN { out(cleared, Fail(req, 400, "Image not found in level")) }
        ELSE IF ~PathExists(current_level, Val(current_image_name))
        THEN { out(cleared, Fail(req, 404, "Image not found")) }
        ELSE LET grid == get_grid_size(file)
                 patches == Partition(current_level, Val(current_image_name), grid)
                 original_positions == PyRange(PyLen(patches))
             IN  { out([ sessions EXCEPT
                           ![sid].patches = Some(patches),
                           ![sid].original_positions = Some(original_positions),
                           ![sid].shuffled_positions = Some(shuffled),
                           ![sid].current_shuffled_image_path =
                               Some(<< "shuffled", sid, current_level >>) ],
                       Ok(req))
                   : shuffled \in RandomShuffles(original_positions) }

\* POST /shuffle
shuffle_image(sessions, file, session_id) ==
    LET req == Request("shuffle", session_id)
        sid == Val(session_id)
        session == sessions[sid]
        current_level == session.current_level
        current_image_name == session.current_image_name
        out(ss, r) == [ s |-> ss, r |-> r ]
    IN  IF ~SessionKnown(sessions, session_id)
        THEN { out(sessions, Fail(req, 400, "Session expired or invalid")) }
        ELSE IF IsNone(current_image_name)
        THEN { out(sessions, Fail(req, 400, "No image selected")) }
        ELSE IF ~LevelInCatalog(current_level)
        THEN { out(sessions, Fail(req, 400, "Invalid level")) }
        ELSE IF Val(current_image_name) \notin image_metadata[current_level]
        THEN { out(sessions, Fail(req, 400, "Image not found in level")) }
        ELSE IF ~PathExists(current_level, Val(current_image_name))
        THEN { out(sessions, Fail(req, 404, "Image not found")) }
        ELSE LET grid == get_grid_size(file)
                 patches == Partition(current_level, Val(current_image_name), grid)
                 original_positions == PyRange(PyLen(patches))
             IN  { out([ sessions EXCEPT
                           ![sid].patches = Some(patches),
                           ![sid].original_positions = Some(original_positions),
                           ![sid].shuffled_positions = Some(shuffled),
                           ![sid].current_shuffled_image_path =
                               Some(<< "shuffled", sid, current_level >>) ],
                       Ok(req))
                   : shuffled \in RandomShuffles(original_positions) }

\* POST /swap
swap_patches(sessions, file, session_id, index1, index2) ==
    LET req == [ Request("swap", session_id) EXCEPT !.index1 = index1, !.index2 = index2 ]
        sid == Val(session_id)
        session == sessions[sid]
        out(ss, r) == [ s |-> ss, r |-> r ]
    IN  IF ~SessionKnown(sessions, session_id)
        THEN out(sessions, Fail(req, 400, "Invalid session"))
        ELSE IF NoPuzzleToSwap(session)
        THEN out(sessions, Fail(req, 400, "No puzzle to swap"))
        ELSE LET shuffled_positions == Val(session.shuffled_positions)
                 patches == Val(session.patches)
                 grid == get_grid_size(file)
                 total_patches == PyLen(shuffled_positions)
             IN  IF InvalidIndices(index1, index2, total_patches)
                 THEN out(sessions, Fail(req, 400, "Invalid indices"))
                 ELSE IF ~PyInRange(shuffled_positions, index1)
                         \/ ~PyInRange(shuffled_positions, index2)
                 THEN out(sessions, Fail(req, 500, "Swap failed"))
                 ELSE LET swapped == SwapList(shuffled_positions, index1, index2)
                          stored == [ sessions EXCEPT
                                        ![sid].shuffled_positions = Some(swapped) ]
                          seen == [ req EXCEPT !.before = Some(shuffled_positions) ]
                      IN  IF SwapRenderFails(patches, swapped, grid)
                          THEN out(stored, Fail(seen, 500, "Swap failed"))
                          ELSE out([ stored EXCEPT
                                       ![sid].current_shuffled_image_path =
                                           Some(<< "updated", sid, session.current_level >>) ],
                                   Ok(seen))

\* POST /validate
validate_puzzle(sessions, session_id) ==
    LET req == Request("validate", session_id)
        session == sessions[Val(session_id)]
    IN  IF ~SessionKnown(sessions, session_id)
        THEN Fail(req, 400, "Invalid session")
        ELSE IF NoPuzzleToValidate(session)
        THEN Fail(req, 400, "No puzzle to validate")
        ELSE [ Ok(req) EXCEPT !.is_correct =
                 Some(IsCorrect(session.shuffled_positions,
                                session.original_positions)) ]

\* levels.index(current_level) if current_level in levels else -1
LevelIndex(current_level) ==
    IF \E i \in DOMAIN levels : levels[i] = current_level
    THEN CHOOSE i \in DOMAIN levels :
            /\ levels[i] = current_level
            /\ \A j \in DOMAIN levels : levels[j] = current_level => i <= j
    ELSE -1

\* faulty variant: the level moves on but the arrangement stays behind
next_level_keeping_puzzle(sessions, session_id) ==
    LET req == Request("next_level", session_id)
        sid == Val(session_id)
        session == sessions[sid]
        current_index == LevelIndex(session.current_level)
        out(ss, r) == [ s |-> ss, r |-> r ]
    IN  IF ~SessionKnown(sessions, session_id)
        THEN out(sessions, Fail(req, 400, "Invalid session"))
        ELSE IF current_index < PyLen(levels) - 1
        THEN out([ sessions EXCEPT
                     ![sid].current_level = levels[current_index + 1],
                     ![sid].current_image_name = None ],
                 [ Ok(req) EXCEPT !.level = Some(levels[current_index + 1]),
                                  !.before = session.shuffled_positions ])
        ELSE out(sessions, Ok(req))

\* faulty variant: the next level is named by counting, whatever the catalog
\* holds
next_level_by_number(sessions, session_id) ==
    LET req == Request("next_level", session_id)
        sid == Val(session_id)
        session == sessions[sid]
        current_index == LevelIndex(session.current_level)
        following == IF current_index + 1 \in DOMAIN levels
                     THEN levels[current_index + 1]
                     ELSE "level_beyond"
    IN  IF ~SessionKnown(sessions, session_id)
        THEN [ s |-> sessions, r |-> Fail(req, 400, "Invalid session") ]
        ELSE [ s |-> [ sessions EXCEPT
                         ![sid].current_level = following,
                         ![sid].current_image_name = None,
                         ![sid].patches = None,
                         ![sid].shuffled_positions = None,
                         ![sid].original_positions = None,
                         ![sid].start_time = None,
                         ![sid].current_shuffled_image_path = None ],
               r |-> [ Ok(req) EXCEPT !.level = Some(following),
                                      !.before = session.shuffled_positions ] ]

\* faulty variant: past the last level the session starts over at the first
next_level_wrapping(sessions, session_id) ==
    LET req == Request("next_level", session_id)
        sid == Val(session_id)
        session == sessions[sid]
        current_index == LevelIndex(session.current_level)
        following == levels[(current_index + 1) % PyLen(levels)]
    IN  IF ~SessionKnown(sessions, session_id)
        THEN [ s |-> sessions, r |-> Fail(req, 400, "Invalid session") ]
        ELSE [ s |-> [ sessions EXCEPT
                         ![sid].current_level = following,
                         ![sid].current_image_name = None,
                         ![sid].patches = None,
                         ![sid].shuffled_positions = None,
                         ![sid].original_positions = None,
                         ![sid].start_time = None,
                         ![sid].current_shuffled_image_path = None ],
               r |-> IF current_index < PyLen(levels) - 1
                     THEN [ Ok(req) EXCEPT !.level = Some(following),
                                           !.before = session.shuffled_positions ]
                     ELSE Ok(req) ]

\* faulty variant: the image selected at the level left stays selected
next_level_keeping_image(sessions, session_id) ==
    LET req == Request("next_level", session_id)
        sid == Val(session_id)
        session == sessions[sid]
        current_index == LevelIndex(session.current_level)
        out(ss, r) == [ s |-> ss, r |-> r ]
    IN  IF ~SessionKnown(sessions, session_id)
        THEN out(sessions, Fail(req, 400, "Invalid session"))
        ELSE IF current_index < PyLen(levels) - 1
        THEN out([ sessions EXCEPT
                     ![sid].current_level = levels[current_index + 1],
                     ![sid].patches = None,
                     ![sid].shuffled_positions = None,
                     ![sid].original_positions = None,
                     ![sid].start_time = None,
                     ![sid].current_shuffled_image_path = None ],
                 [ Ok(req) EXCEPT !.level = Some(levels[current_index + 1]),
                                  !.before = session.shuffled_positions ])
        ELSE out(sessions, Ok(req))

\* POST /next_level; the response is logged with the list the session held
\* when the request arrived
next_level(sessions, session_id) ==
    LET req == Request("next_level", session_id)
        sid == Val(session_id)
        session == sessions[sid]
        current_index == LevelIndex(session.current_level)
        out(ss, r) == [ s |-> ss, r |-> r ]
    IN  IF ~SessionKnown(sessions, session_id)
        THEN out(sessions, Fail(req, 400, "Invalid session"))
        ELSE IF current_index < PyLen(levels) - 1
        THEN out([ sessions EXCEPT
                     ![sid].current_level = levels[current_index + 1],
                     ![sid].current_image_name = None,
                     ![sid].patches = None,
                     ![sid].shuffled_positions = None,
                     ![sid].original_positions = None,
                     ![sid].start_time = None,
                     ![sid].current_shuffled_image_path = None ],
                 [ Ok(req) EXCEPT !.level = Some(levels[current_index + 1]),
                                  !.before = session.shuffled_positions ])
        ELSE out(sessions, Ok(req))

\* faulty variant: the grid size is written before it is validated
update_config_storing_first(file, grid, countdown_time, password) ==
    LET req == Request("config", None)
        out(f, r) == [ f |-> f, r |-> r ]
        after_grid == IF IsNone(grid) THEN file ELSE set_grid_size(file, Val(grid))
    IN  IF password # ADMIN_PASSWORD
        THEN out(file, Fail(req, 401, "Unauthorized"))
        ELSE IF ~IsNone(grid) /\ (Val(grid) < MIN_GRID_SIZE \/ Val(grid) > MAX_GRID_SIZE)
        THEN out(after_grid, Fail(req, 400, "Grid size must be between 2 and 10"))
        ELSE IF IsNone(countdown_time)
        THEN out(after_grid, Ok(req))
        ELSE IF Val(countdown_time) < MIN_COUNTDOWN_TIME
                \/ Val(countdown_time) > MAX_COUNTDOWN_TIME
        THEN out(after_grid, Fail(req, 400, "Countdown time must be between 0 and 60 seconds"))
        ELSE out(set_countdown_time(after_grid, Val(countdown_time)), Ok(req))

\* POST /admin/config
update_config(file, grid, countdown_time, password) ==
    LET req == Request("config", None)
        out(f, r) == [ f |-> f, r |-> r ]
        after_grid == IF IsNone(grid) THEN file ELSE set_grid_size(file, Val(grid))
    IN  IF password # ADMIN_PASSWORD
        THEN out(file, Fail(req, 401, "Unauthorized"))
        ELSE IF ~IsNone(grid) /\ (Val(grid) < MIN_GRID_SIZE \/ Val(grid) > MAX_GRID_SIZE)
        THEN out(file, Fail(req, 400, "Grid size must be between 2 and 10"))
        ELSE IF IsNone(countdown_time)
        THEN out(after_grid, Ok(req))
        ELSE IF Val(countdown_time) < MIN_COUNTDOWN_TIME
                \/ Val(countdown_time) > MAX_COUNTDOWN_TIME
        THEN out(after_grid, Fail(req, 400, "Countdown time must be between 0 and 60 seconds"))
        ELSE out(set_countdown_time(after_grid, Val(countdown_time)), Ok(req))

(***************************************************************************)
(* Inputs                                                                  *)
(***************************************************************************)
\* the X-Session-ID header: absent, or one of the identifiers 1..n (an
\* identifier uuid4() has not produced yet is an unrecognised token)
TokenInputs(n) == { None } \cup { Some(t) : t \in 1 .. n }

\* form fields index1, index2 of /swap: -1, the first slots and the list's
\* length when the session holds a puzzle, slot 0 when it holds none
IndexInputs(session_id) ==
    IF SessionKnown(game_sessions, session_id)
       /\ ~IsNone(game_sessions[Val(session_id)].shuffled_positions)
    THEN (-1 .. MaxIndex)
         \cup { PyLen(Val(game_sessions[Val(session_id)].shuffled_positions)) }
    ELSE { 0 }

\* the clock advances by the timeout window, or by a minute more
TickInputs == { SESSION_TIMEOUT_MINUTES, SESSION_TIMEOUT_MINUTES + 1 }

\* the clock advances by half the timeout window, or by a minute more
HalfTickInputs == { SESSION_TIMEOUT_MINUTES \div 2, SESSION_TIMEOUT_MINUTES \div 2 + 1 }

(***************************************************************************)
(* The state machine                                                       *)
(***************************************************************************)
\* the requests of the puzzle engine
PuzzleOps == { "image", "shuffle", "swap", "validate", "next_level" }

\* the session a response r was served from: /image returns it, the other
\* requests name it in X-Session-ID
Served(r) == IF r.op = "image" THEN r.token ELSE r.session_id

\* the history of accesses after a step that leaves the sessions `sessions`
\* and answers r at time clock: the session and the time of the last puzzle
\* request served, while that session is in the registry
Touch(access, sessions, r, clock) ==
    IF r.op \in PuzzleOps /\ r.status = 200 /\ SessionKnown(sessions, Served(r))
    THEN Some([ sid |-> Val(Served(r)), at |-> clock ])
    ELSE IF ~IsNone(access) /\ Val(access).sid \in DOMAIN sessions
         THEN access
         ELSE None

\* the two worker threads that serve concurrent requests
Threads == { 1, 2 }

\* a worker thread with no request; first and second are the two values that
\* line 318 of main.py loads before it stores them, before is the list as it
\* was when the request arrived, alone tells that no other request was running
\* for /image: clock is the time the sweep reads, size the length of
\* session_timeouts when the sweep starts to iterate it, last the key the
\* iteration has reached, expired the keys collected, arrived the registry as
\* it was when the request arrived, answer the response
ThreadIdle ==
    [ pc |-> "idle", session_id |-> None, index1 |-> 0, index2 |-> 0,
      first |-> 0, second |-> 0, before |-> None, alone |-> FALSE, status |-> 0,
      clock |-> 0, size |-> 0, last |-> 0, expired |-> { }, arrived |-> None,
      answer |-> None ]

AllIdle == \A t \in Threads : threads[t].pc = "idle"

Init ==
    /\ game_sessions = << >>
    /\ session_timeouts = << >>
    /\ uuid_count = 0
    /\ now = 0
    /\ config_file = None
    /\ resp = NoRequest
    /\ twice = None
    /\ last_access = None
    /\ threads = [ t \in Threads |-> ThreadIdle ]

GetImage(session_id) ==
    \E o \in get_image(Registry, session_id, now) :
        /\ game_sessions' = o.s
        /\ session_timeouts' = o.t
        /\ uuid_count' = o.u
        /\ resp' = o.r
        /\ twice' = None
        /\ UNCHANGED << now, config_file >>
        /\ last_access' = Touch(last_access, game_sessions', resp', now)
        /\ UNCHANGED threads

ShuffleImage(session_id) ==
    \E o \in shuffle_image(game_sessions, config_file, session_id) :
        /\ game_sessions' = o.s
        /\ resp' = o.r
        /\ twice' = None
        /\ UNCHANGED << session_timeouts, uuid_count, now, config_file >>
        /\ last_access' = Touch(last_access, game_sessions', resp', now)
        /\ UNCHANGED threads

SwapPatches(session_id, index1, index2) ==
    LET o == swap_patches(game_sessions, config_file, session_id, index1, index2)
    IN  /\ game_sessions' = o.s
        /\ resp' = o.r
        /\ twice' = IF /\ resp.op = "swap"
                        /\ resp.session_id = session_id
                        /\ resp.index1 = index1
                        /\ resp.index2 = index2
                        /\ ~IsNone(o.r.before)
                     THEN resp.before
                     ELSE None
        /\ UNCHANGED << session_timeouts, uuid_count, now, config_file >>
        /\ last_access' = Touch(last_access, game_sessions', resp', now)
        /\ UNCHANGED threads

\* faulty variant: validating renews the session's expiry
ValidatePuzzle_refreshing(session_id) ==
    /\ resp' = validate_puzzle(game_sessions, session_id)
    /\ twice' = None
    /\ session_timeouts' =
          IF SessionKnown(game_sessions, session_id)
          THEN DictSet(session_timeouts, Val(session_id), Expiry(now))
          ELSE session_timeouts
    /\ UNCHANGED << game_sessions, uuid_count, now, config_file >>
    /\ last_access' = Touch(last_access, game_sessions', resp', now)
    /\ UNCHANGED threads

ValidatePuzzle(session_id) ==
    /\ resp' = validate_puzzle(game_sessions, session_id)
    /\ twice' = None
    /\ UNCHANGED << game_sessions, session_timeouts, uuid_count, now, config_file >>
    /\ last_access' = Touch(last_access, game_sessions', resp', now)
    /\ UNCHANGED threads

NextLevel(session_id) ==
    LET o == next_level(game_sessions, session_id)
    IN  /\ game_sessions' = o.s
        /\ resp' = o.r
        /\ twice' = None
        /\ UNCHANGED << session_timeouts, uuid_count, now, config_file >>
        /\ last_access' = Touch(last_access, game_sessions', resp', now)
        /\ UNCHANGED threads

UpdateConfig(grid, countdown_time, password) ==
    LET o == update_config(config_file, grid, countdown_time, password)
    IN  /\ config_file' = o.f
        /\ resp' = o.r
        /\ twice' = None
        /\ UNCHANGED << game_sessions, session_timeouts, uuid_count, now >>
        /\ last_access' = Touch(last_access, game_sessions', resp', now)
        /\ UNCHANGED threads

\* the registry's own operations, called directly
GetOrCreateSession(session_id) ==
    LET o == get_or_create_session(Registry, session_id, now)
    IN  /\ game_sessions' = o.s
        /\ session_timeouts' = o.t
        /\ uuid_count' = o.u
        /\ resp' = [ Ok(Request("resolve", session_id)) EXCEPT !.token = Some(o.id) ]
        /\ twice' = None
        /\ UNCHANGED << now, config_file >>
        /\ last_access' = Touch(last_access, game_sessions', resp', now)
        /\ UNCHANGED threads

CleanupExpiredSessions ==
    LET o == cleanup_expired_sessions(Registry, now)
    IN  /\ game_sessions' = o.s
        /\ session_timeouts' = o.t
        /\ resp' = Ok(Request("sweep", None))
        /\ twice' = None
        /\ UNCHANGED << uuid_count, now, config_file >>
        /\ last_access' = Touch(last_access, game_sessions', resp', now)
        /\ UNCHANGED threads

ClearSession(session_id) ==
    LET o == clear_session(Registry, Val(session_id))
    IN  /\ ~IsNone(session_id)
        /\ game_sessions' = o.s
        /\ session_timeouts' = o.t
        /\ resp' = Ok(Request("clear", session_id))
        /\ twice' = None
        /\ UNCHANGED << uuid_count, now, config_file >>
        /\ last_access' = Touch(last_access, game_sessions', resp', now)
        /\ UNCHANGED threads

Tick(minutes) ==
    /\ now + minutes <= SESSION_TIMEOUT_MINUTES + MaxSlack
    /\ now' = now + minutes
    /\ resp' = Request("tick", None)
    /\ twice' = None
    /\ UNCHANGED << game_sessions, session_timeouts, uuid_count, config_file >>
    /\ last_access' = Touch(last_access, game_sessions', resp', now)
    /\ UNCHANGED threads

\* /swap as a worker thread runs it, other threads running between its steps.
\* Lines 291-311: the session is looked up, the list and the tiles are read,
\* the indices are checked; a request that fails here is answered at once.
SwapBegin(t, session_id, index1, index2) ==
    LET o == swap_patches(game_sessions, config_file, session_id, index1, index2)
    IN  /\ threads[t].pc = "idle"
        /\ IF IsNone(o.r.before)
           THEN /\ threads' = [ threads EXCEPT ![t] =
                                  [ ThreadIdle EXCEPT !.pc = "done",
                                                      !.session_id = session_id,
                                                      !.index1 = index1,
                                                      !.index2 = index2,
                                                      !.status = o.r.status ] ]
                /\ resp' = o.r
           ELSE /\ threads' = [ threads EXCEPT ![t] =
                                  [ ThreadIdle EXCEPT
                                      !.pc = "load2",
                                      !.session_id = session_id,
                                      !.index1 = index1,
                                      !.index2 = index2,
                                      !.before = o.r.before,
                                      !.alone = \A u \in Threads \ { t } :
                                                   threads[u].pc = "idle" ] ]
                /\ UNCHANGED resp
        /\ UNCHANGED << game_sessions, session_timeouts, uuid_count, now, config_file,
                        twice, last_access >>

\* the list object the thread holds: the session's list, which no request of
\* the specification replaces while a swap is running
ThreadList(t) == Val(game_sessions[Val(threads[t].session_id)].shuffled_positions)

\* line 318, right-hand side: shuffled_positions[index2] is loaded
SwapLoad2(t) ==
    /\ threads[t].pc = "load2"
    /\ threads' = [ threads EXCEPT ![t].pc = "load1",
                                   ![t].first = ThreadList(t)[threads[t].index2] ]
    /\ UNCHANGED << game_sessions, session_timeouts, uuid_count, now, config_file,
                    resp, twice, last_access >>

\* line 318, right-hand side: shuffled_positions[index1] is loaded
SwapLoad1(t) ==
    /\ threads[t].pc = "load1"
    /\ threads' = [ threads EXCEPT ![t].pc = "store1",
                                   ![t].second = ThreadList(t)[threads[t].index1] ]
    /\ UNCHANGED << game_sessions, session_timeouts, uuid_count, now, config_file,
                    resp, twice, last_access >>

\* line 318, left-hand side: shuffled_positions[index1] is stored
SwapStore1(t) ==
    LET sid == Val(threads[t].session_id)
        stored == [ ThreadList(t) EXCEPT ![threads[t].index1] = threads[t].first ]
    IN  /\ threads[t].pc = "store1"
        /\ game_sessions' = [ game_sessions EXCEPT ![sid].shuffled_positions = Some(stored) ]
        /\ threads' = [ threads EXCEPT ![t].pc = "store2" ]
        /\ UNCHANGED << session_timeouts, uuid_count, now, config_file, resp, twice,
                        last_access >>

\* line 318, left-hand side: shuffled_positions[index2] is stored; lines
\* 319-372: the list is put back in the session, the image is composed from it
\* and the request is answered
SwapStore2(t) ==
    LET sid == Val(threads[t].session_id)
        session == game_sessions[sid]
        stored == [ ThreadList(t) EXCEPT ![threads[t].index2] = threads[t].second ]
        req == [ Request("swap", threads[t].session_id) EXCEPT
                   !.index1 = threads[t].index1,
                   !.index2 = threads[t].index2,
                   !.before = threads[t].before ]
        fails == SwapRenderFails(Val(session.patches), stored, get_grid_size(config_file))
    IN  /\ threads[t].pc = "store2"
        /\ game_sessions' =
              [ game_sessions EXCEPT
                  ![sid].shuffled_positions = Some(stored),
                  ![sid].current_shuffled_image_path =
                      IF fails THEN session.current_shuffled_image_path
                      ELSE Some(<< "updated", sid, session.current_level >>) ]
        /\ resp' = IF fails THEN Fail(req, 500, "Swap failed") ELSE Ok(req)
        /\ threads' = [ threads EXCEPT ![t].pc = "done", ![t].status = resp'.status ]
        /\ twice' = None
        /\ UNCHANGED << session_timeouts, uuid_count, now, config_file >>
        /\ last_access' = Touch(last_access, game_sessions', resp', now)

\* /swap in two steps, for the requests of other kinds that run between them.
\* Lines 291-311, as SwapBegin, the thread keeping what its local variables
\* refer to: the list object (before) and the tiles (through arrived).
SwapRead(t, session_id, index1, index2) ==
    LET o == swap_patches(game_sessions, config_file, session_id, index1, index2)
    IN  /\ threads[t].pc = "idle"
        /\ \A u \in Threads \ { t } : threads[u].pc \in { "idle", "done" }
        /\ IF IsNone(o.r.before)
           THEN /\ threads' = [ threads EXCEPT ![t] =
                                  [ ThreadIdle EXCEPT !.pc = "done",
                                                      !.session_id = session_id,
                                                      !.index1 = index1,
                                                      !.index2 = index2,
                                                      !.status = o.r.status ] ]
                /\ resp' = o.r
           ELSE /\ threads' = [ threads EXCEPT ![t] =
                                  [ ThreadIdle EXCEPT
                                      !.pc = "held",
                                      !.session_id = session_id,
                                      !.index1 = index1,
                                      !.index2 = index2,
                                      !.before = o.r.before,
                                      !.arrived = Some(Registry) ] ]
                /\ UNCHANGED resp
        /\ UNCHANGED << game_sessions, session_timeouts, uuid_count, now, config_file,
                        twice, last_access >>

\* Lines 318-372: the two slots of the list object the thread holds are
\* exchanged, line 319 puts that object in the session dict whatever the dict
\* holds by now, the image is composed from the tiles the thread read and the
\* request is answered.  No other swap runs meanwhile, so the object still
\* holds what the thread read; the grid size does not change meanwhile.
SwapWrite(t) ==
    LET sid == Val(threads[t].session_id)
        session == game_sessions[sid]
        patches == Val(Val(threads[t].arrived).s[sid].patches)
        stored == SwapList(Val(threads[t].before), threads[t].index1, threads[t].index2)
        req == [ Request("swap", threads[t].session_id) EXCEPT
                   !.index1 = threads[t].index1,
                   !.index2 = threads[t].index2,
                   !.before = threads[t].before ]
        fails == SwapRenderFails(patches, stored, get_grid_size(config_file))
    IN  /\ threads[t].pc = "held"
        /\ game_sessions' =
              [ game_sessions EXCEPT
                  ![sid].shuffled_positions = Some(stored),
                  ![sid].current_shuffled_image_path =
                      IF fails THEN session.current_shuffled_image_path
                      ELSE Some(<< "updated", sid, session.current_level >>) ]
        /\ resp' = IF fails THEN Fail(req, 500, "Swap failed") ELSE Ok(req)
        /\ threads' = [ threads EXCEPT ![t].pc = "done", ![t].status = resp'.status ]
        /\ twice' = None
        /\ UNCHANGED << session_timeouts, uuid_count, now, config_file >>
        /\ last_access' = Touch(last_access, game_sessions', resp', now)

\* /image as a worker thread runs it.  sessions.py:46-47: the sweep reads the
\* clock and starts to iterate session_timeouts.items()
ImageBegin(t, session_id) ==
    /\ threads[t].pc = "idle"
    /\ threads' = [ threads EXCEPT ![t] =
                      [ ThreadIdle EXCEPT
                          !.pc = "scan",
                          !.session_id = session_id,
                          !.clock = now,
                          !.size = Cardinality(DOMAIN session_timeouts),
                          !.arrived = Some(Registry) ] ]
    /\ UNCHANGED << game_sessions, session_timeouts, uuid_count, now, config_file,
                    resp, twice, last_access >>

\* the keys of session_timeouts the iteration has not reached: a dict keeps
\* its keys in the order they were added, which is the order uuid4 made them
KeysAhead(t) == { k \in DOMAIN session_timeouts : k > threads[t].last }

\* sessions.py:47: one step of the iteration.  A dict that has changed its
\* size since the iteration began raises RuntimeError, which get_image does
\* not catch: the request is answered 500
ImageScan(t) ==
    LET req == Request("image", threads[t].session_id)
        error == Fail(req, 500, "Internal Server Error")
        key == CHOOSE k \in KeysAhead(t) : \A other \in KeysAhead(t) : k <= other
    IN  /\ threads[t].pc = "scan"
        /\ IF Cardinality(DOMAIN session_timeouts) # threads[t].size
           THEN /\ threads' = [ threads EXCEPT ![t].pc = "done",
                                               ![t].status = 500,
                                               ![t].answer = Some(error) ]
                /\ resp' = error
           ELSE IF KeysAhead(t) = { }
           THEN /\ threads' = [ threads EXCEPT ![t].pc = "pop" ]
                /\ UNCHANGED resp
           ELSE /\ threads' = [ threads EXCEPT
                                  ![t].last = key,
                                  ![t].expired =
                                      IF session_timeouts[key] < threads[t].clock
                                      THEN threads[t].expired \cup { key }
                                      ELSE threads[t].expired ]
                /\ UNCHANGED resp
        /\ UNCHANGED << game_sessions, session_timeouts, uuid_count, now, config_file,
                        twice, last_access >>

\* sessions.py:49-51: the collected sessions are popped; main.py:112-153: the
\* session is resolved, an image is drawn and the request is answered
ImageFinish(t) ==
    LET swept == [ s |-> DictPop(game_sessions, threads[t].expired),
                   t |-> DictPop(session_timeouts, threads[t].expired),
                   u |-> uuid_count ]
    IN  /\ threads[t].pc = "pop"
        /\ \E o \in serve_image(swept, threads[t].session_id, now) :
              /\ game_sessions' = o.s
              /\ session_timeouts' = o.t
              /\ uuid_count' = o.u
              /\ resp' = o.r
              /\ threads' = [ threads EXCEPT ![t].pc = "done",
                                             ![t].status = o.r.status,
                                             ![t].answer = Some(o.r) ]
        /\ twice' = None
        /\ UNCHANGED << now, config_file >>
        /\ last_access' = Touch(last_access, game_sessions', resp', now)

(***************************************************************************)
(* Spec: one player and the whole puzzle engine.  uuid4() is drawn once,   *)
(* the clock stands still, the administrator may lower the grid size from  *)
(* its default to the smallest one.                                        *)
(***************************************************************************)
PuzzleTokens == TokenInputs(1)

PuzzleGrids == { Some(MIN_GRID_SIZE) }

Next ==
    \/ \E session_id \in PuzzleTokens : GetImage(session_id) /\ uuid_count' <= 1
    \/ \E session_id \in PuzzleTokens :
          GetOrCreateSession(session_id) /\ uuid_count' <= 1
    \/ \E session_id \in PuzzleTokens : ShuffleImage(session_id)
    \/ \E session_id \in PuzzleTokens :
          \E index1, index2 \in IndexInputs(session_id) :
             SwapPatches(session_id, index1, index2)
    \/ \E session_id \in PuzzleTokens : ValidatePuzzle(session_id)
    \/ \E session_id \in PuzzleTokens : NextLevel(session_id)
    \/ \E grid \in PuzzleGrids : UpdateConfig(grid, None, ADMIN_PASSWORD)

Spec == Init /\ [][Next]_vars

(***************************************************************************)
(* SpecRegistry: the session registry with up to MaxSessions sessions, the *)
(* clock, and the requests that move a session without a puzzle.           *)
(***************************************************************************)
RegistryTokens == TokenInputs(MaxSessions)

NextRegistry ==
    \/ \E session_id \in RegistryTokens :
          GetImage(session_id) /\ uuid_count' <= MaxSessions
    \/ \E session_id \in RegistryTokens :
          GetOrCreateSession(session_id) /\ uuid_count' <= MaxSessions
    \/ CleanupExpiredSessions
    \/ \E session_id \in RegistryTokens : ClearSession(session_id)
    \/ \E session_id \in RegistryTokens : NextLevel(session_id)
    \/ \E minutes \in TickInputs : Tick(minutes)

SpecRegistry == Init /\ [][NextRegistry]_vars

(***************************************************************************)
(* SpecExpiry: one player, the clock in steps of half a timeout window,    *)
(* every puzzle request and the sweep.                                     *)
(***************************************************************************)
NextExpiry ==
    \/ \E session_id \in PuzzleTokens : GetImage(session_id) /\ uuid_count' <= 1
    \/ \E session_id \in PuzzleTokens : ShuffleImage(session_id)
    \/ \E session_id \in PuzzleTokens : SwapPatches(session_id, 0, 1)
    \/ \E session_id \in PuzzleTokens : ValidatePuzzle(session_id)
    \/ \E session_id \in PuzzleTokens : NextLevel(session_id)
    \/ CleanupExpiredSessions
    \/ \E minutes \in HalfTickInputs : Tick(minutes)

SpecExpiry == Init /\ [][NextExpiry]_vars

(***************************************************************************)
(* SpecConcurrent: one player whose /swap requests are served by two       *)
(* threads of the pool at once.  The session is set up by /image and       *)
(* /shuffle while no swap is running; each thread serves one request.      *)
(***************************************************************************)
RaceIndices == 0 .. (MaxIndex - 1)

NextConcurrent ==
    \/ \E session_id \in PuzzleTokens :
          AllIdle /\ GetImage(session_id) /\ uuid_count' <= 1
    \/ \E session_id \in PuzzleTokens : AllIdle /\ ShuffleImage(session_id)
    \/ \E t \in Threads, session_id \in PuzzleTokens :
          \E index1, index2 \in RaceIndices : SwapBegin(t, session_id, index1, index2)
    \/ \E t \in Threads : SwapLoad2(t)
    \/ \E t \in Threads : SwapLoad1(t)
    \/ \E t \in Threads : SwapStore1(t)
    \/ \E t \in Threads : SwapStore2(t)

SpecConcurrent == Init /\ [][NextConcurrent]_vars

(***************************************************************************)
(* SpecPlayers: two players, each with a puzzle of their own, on a server  *)
(* whose config.json sets the smallest grid; the clock passes the timeout  *)
(* window and /image sweeps.  A swap exchanges the first two slots.        *)
(***************************************************************************)
PlayerTokens == { None, Some(1), Some(2) }

InitPlayers ==
    /\ game_sessions = << >>
    /\ session_timeouts = << >>
    /\ uuid_count = 0
    /\ now = 0
    /\ config_file = set_grid_size(None, MIN_GRID_SIZE)
    /\ resp = NoRequest
    /\ twice = None
    /\ last_access = None
    /\ threads = [ t \in Threads |-> ThreadIdle ]

NextPlayers ==
    \/ \E session_id \in PlayerTokens : GetImage(session_id) /\ uuid_count' <= 2
    \/ \E session_id \in PlayerTokens : ShuffleImage(session_id)
    \/ \E session_id \in PlayerTokens : SwapPatches(session_id, 0, 1)
    \/ \E session_id \in PlayerTokens : ValidatePuzzle(session_id)
    \/ \E session_id \in PlayerTokens : NextLevel(session_id)
    \/ Tick(SESSION_TIMEOUT_MINUTES + 1)

SpecPlayers == InitPlayers /\ [][NextPlayers]_vars

(***************************************************************************)
(* SpecSweep: /image requests of two players served by two threads of the  *)
(* pool at once, once a first session exists.  Each thread serves one      *)
(* request.                                                                *)
(***************************************************************************)
NextSweep ==
    \/ \E session_id \in PlayerTokens :
          AllIdle /\ GetImage(session_id) /\ uuid_count' <= 1
    \/ \E session_id \in PlayerTokens : AllIdle /\ NextLevel(session_id)
    \/ AllIdle /\ Tick(SESSION_TIMEOUT_MINUTES + 1)
    \/ \E t \in Threads, session_id \in PlayerTokens : ImageBegin(t, session_id)
    \/ \E t \in Threads : ImageScan(t)
    \/ \E t \in Threads : ImageFinish(t) /\ uuid_count' <= MaxSessions + 1

SpecSweep == Init /\ [][NextSweep]_vars

(***************************************************************************)
(* SpecArrange: one player on a server configured for the smallest grid,   *)
(* whose /shuffle and /next_level requests are served while a /swap of the *)
(* same session is between reading the arrangement and writing it back.    *)
(***************************************************************************)
ArrangeIndices == 0 .. 1

NextArrange ==
    \/ \E session_id \in PuzzleTokens : GetImage(session_id) /\ uuid_count' <= 1
    \/ \E session_id \in PuzzleTokens : ShuffleImage(session_id)
    \/ \E session_id \in PuzzleTokens : NextLevel(session_id)
    \/ \E t \in Threads, session_id \in PuzzleTokens :
          \E index1, index2 \in ArrangeIndices : SwapRead(t, session_id, index1, index2)
    \/ \E t \in Threads : SwapWrite(t)

SpecArrange == InitPlayers /\ [][NextArrange]_vars

(***************************************************************************)
(* SpecConfig: the administrator's form, with values on and beyond both    *)
(* ends of each range and a wrong password, beside one player who fetches  *)
(* an image and shuffles it at the size stored.                            *)
(***************************************************************************)
ConfigGrids ==
    { None, Some(MIN_GRID_SIZE - 1), Some(MIN_GRID_SIZE),
      Some(MAX_GRID_SIZE), Some(MAX_GRID_SIZE + 1) }

ConfigCountdowns ==
    { None, Some(MIN_COUNTDOWN_TIME - 1), Some(MIN_COUNTDOWN_TIME),
      Some(MAX_COUNTDOWN_TIME), Some(MAX_COUNTDOWN_TIME + 1) }

ConfigPasswords == { ADMIN_PASSWORD, "guess" }

NextConfig ==
    \/ \E grid \in ConfigGrids, countdown_time \in ConfigCountdowns,
          password \in ConfigPasswords :
          UpdateConfig(grid, countdown_time, password)
    \/ \E session_id \in PuzzleTokens : GetImage(session_id) /\ uuid_count' <= 1
    \/ \E session_id \in PuzzleTokens : ShuffleImage(session_id)

SpecConfig == Init /\ [][NextConfig]_vars

(***************************************************************************)
(* Properties                                                              *)
(***************************************************************************)
\* the session a request names, before and after the step
Asked(r) == Val(r.session_id)

HasArrangement(session) == ~IsNone(session.shuffled_positions)

Current(session) == Val(session.shuffled_positions)

\* l lists every number of 0..n-1 exactly once
IsPermutation(l, n) ==
    /\ DOMAIN l = 0 .. (n - 1)
    /\ \A v \in 0 .. (n - 1) : Cardinality({ i \in DOMAIN l : l[i] = v }) = 1

IsIdentity(l) == \A i \in DOMAIN l : l[i] = i

\* C1: in every state reached by image, shuffle, swap, validate and next_level
\* requests, a session that has shuffled_positions has a permutation of
\* 0..N*N-1 there, N a grid size, of the length of original_positions.
C1_ShuffledIsPermutation ==
    \A sid \in DOMAIN game_sessions :
        LET session == game_sessions[sid]
        IN  HasArrangement(session) =>
              /\ ~IsNone(session.original_positions)
              /\ LET n == PyLen(Val(session.original_positions))
                  IN  /\ \E N \in MIN_GRID_SIZE .. MAX_GRID_SIZE : n = N * N
                      /\ PyLen(Current(session)) = n
                      /\ IsPermutation(Current(session), n)

\* a swap has succeeded on a freshly shuffled list and left it out of order
C1_Witness ==
    /\ resp.op = "swap"
    /\ resp.status = 200
    /\ resp.index1 # resp.index2
    /\ ~IsIdentity(Current(game_sessions[Asked(resp)]))
    /\ ~IsIdentity(Val(resp.before))

\* the 16-tile arrangement [3,1,2,0,4,...,15] of the specification's scenario
Scenario == [ i \in 0 .. 15 |-> IF i = 0 THEN 3 ELSE IF i = 3 THEN 0 ELSE i ]

\* C2: on a session with a live arrangement /validate answers is_correct, and
\* is_correct is true exactly when current[i] = i for every slot i; after
\* swap(0,3) on [3,1,2,0,4,...,15] the list is 0..15 and /validate answers true.
C2_ValidateIffIdentity ==
    /\ \A session_id \in PuzzleTokens :
          ( SessionKnown(game_sessions, session_id)
            /\ HasArrangement(game_sessions[Val(session_id)]) ) =>
              LET answer == validate_puzzle(game_sessions, session_id)
              IN  /\ answer.status = 200
                  /\ answer.is_correct =
                       Some(IsIdentity(Current(game_sessions[Val(session_id)])))
    /\ ( resp.op = "validate" /\ resp.status = 200 ) =>
          resp.is_correct = Some(IsIdentity(Current(game_sessions[Asked(resp)])))
    /\ ( resp.op = "swap" /\ resp.index1 = 0 /\ resp.index2 = 3
          /\ resp.before = Some(Scenario) ) =>
          /\ Current(game_sessions[Asked(resp)]) = PyRange(16)
          /\ validate_puzzle(game_sessions, resp.session_id).is_correct = Some(TRUE)

\* swap(0,3) has just been applied to [3,1,2,0,4,...,15]
C2_Witness ==
    /\ resp.op = "swap"
    /\ resp.status = 200
    /\ resp.index1 = 0
    /\ resp.index2 = 3
    /\ resp.before = Some(Scenario)

C3_Step ==
    ( resp'.op = "swap" /\ resp'.status = 200 ) =>
        LET sid == Asked(resp')
            a == resp'.index1
            b == resp'.index2
        IN  /\ sid \in DOMAIN game_sessions
            /\ DOMAIN game_sessions' = DOMAIN game_sessions
            /\ HasArrangement(game_sessions[sid])
            /\ HasArrangement(game_sessions'[sid])
            /\ LET old == Current(game_sessions[sid])
                    new == Current(game_sessions'[sid])
                IN  /\ a \in DOMAIN old
                    /\ b \in DOMAIN old
                    /\ DOMAIN new = DOMAIN old
                    /\ new[a] = old[b]
                    /\ new[b] = old[a]
                    /\ \A k \in DOMAIN old \ { a, b } : new[k] = old[k]
            /\ game_sessions'[sid].original_positions =
                  game_sessions[sid].original_positions
            /\ game_sessions'[sid].patches = game_sessions[sid].patches
            /\ game_sessions'[sid].current_level = game_sessions[sid].current_level
            /\ game_sessions'[sid].current_image_name =
                  game_sessions[sid].current_image_name

\* C3: a successful swap(a, b) exchanges current[a] and current[b] and leaves
\* every other slot, the original order, the tiles, the level and the
\* selected image as they were.
C3_SwapExchangesExactly == [][C3_Step]_vars

\* a swap of two different slots holding different tiles has succeeded
C3_Witness ==
    /\ resp.op = "swap"
    /\ resp.status = 200
    /\ resp.index1 # resp.index2
    /\ Current(game_sessions[Asked(resp)]) # Val(resp.before)

\* C4: after swap(a, b) applied twice in a row, with no request in between,
\* the list is the one that held before the first of the two.
C4_SwapTwiceRestores ==
    ~IsNone(twice) =>
        /\ SessionKnown(game_sessions, resp.session_id)
        /\ game_sessions[Asked(resp)].shuffled_positions = twice

\* the second of two equal swaps of different slots has been applied
C4_Witness ==
    /\ ~IsNone(twice)
    /\ resp.op = "swap"
    /\ resp.status = 200
    /\ resp.index1 # resp.index2
    /\ Val(resp.before) # Val(twice)

\* C5: swap(a, a) with a valid index a succeeds without error and leaves the
\* arrangement unchanged.
C5_SelfSwapSucceeds ==
    ( /\ resp.op = "swap"
      /\ resp.index1 = resp.index2
      /\ SessionKnown(game_sessions, resp.session_id)
      /\ HasArrangement(game_sessions[Asked(resp)])
      /\ resp.index1 \in DOMAIN Current(game_sessions[Asked(resp)]) ) =>
        /\ resp.status = 200
        /\ resp.error = ""
        /\ game_sessions[Asked(resp)].shuffled_positions = resp.before

C6_Step ==
    ( /\ resp'.op = "swap"
      /\ SessionKnown(game_sessions, resp'.session_id)
      /\ HasArrangement(game_sessions[Asked(resp')])
      /\ LET n == PyLen(Val(game_sessions[Asked(resp')].original_positions))
          IN  \/ resp'.index1 < 0
              \/ resp'.index2 < 0
              \/ resp'.index1 >= n
              \/ resp'.index2 >= n ) =>
        /\ resp'.status = 400
        /\ resp'.error = "Invalid indices"
        /\ game_sessions' = game_sessions

\* C6: a swap with an index below 0 or at least N*N is answered with the
\* invalid-indices error and leaves the session's arrangement as it was.
C6_BadIndexRejected == [][C6_Step]_vars

\* a swap with one index too large and the other negative has been rejected
C6_Witness ==
    /\ resp.op = "swap"
    /\ resp.error = "Invalid indices"
    /\ HasArrangement(game_sessions[Asked(resp)])
    /\ resp.index1 >= PyLen(Current(game_sessions[Asked(resp)]))
    /\ resp.index2 < 0

C7_Step ==
    ( /\ resp'.op \in { "swap", "validate" }
      /\ SessionKnown(game_sessions, resp'.session_id)
      /\ ~HasArrangement(game_sessions[Asked(resp')]) ) =>
        /\ resp'.status = 400
        /\ resp'.error = ( IF resp'.op = "swap" THEN "No puzzle to swap"
                            ELSE "No puzzle to validate" )
        /\ game_sessions' = game_sessions
        /\ session_timeouts' = session_timeouts

\* C7: swap and validate on a session without a live arrangement fail with
\* the no-puzzle error and leave the session as it was.
C7_NoPuzzleRejected == [][C7_Step]_vars

\* validate was refused on a session that next_level has moved on
C7_Witness ==
    /\ resp.op = "validate"
    /\ resp.error = "No puzzle to validate"
    /\ game_sessions[Asked(resp)].current_level = levels[1]

Expired(timeouts, sid, clock) == timeouts[sid] < clock

C8_Step ==
    resp'.op = "resolve" =>
        LET known == SessionKnown(game_sessions, resp'.session_id)
            live == known /\ ~Expired(session_timeouts, Asked(resp'), now)
        IN  /\ resp'.token = resp'.session_id => live
            /\ ( known /\ ~live ) =>
                  /\ resp'.token # resp'.session_id
                  /\ Val(resp'.token) \notin DOMAIN game_sessions

\* C8: resolve returns the presented session only if it is present and its
\* expiry has not passed; for a present session whose expiry has passed it
\* allocates a fresh session under a new token.
C8_ExpiredNotRevived == [][C8_Step]_vars

C9_Step ==
    ( resp'.op = "resolve" /\ ~SessionKnown(game_sessions, resp'.session_id) ) =>
        LET new == Val(resp'.token)
        IN  /\ resp'.status = 200
            /\ new \notin DOMAIN game_sessions
            /\ DOMAIN game_sessions' = DOMAIN game_sessions \cup { new }
            /\ DOMAIN session_timeouts' = DOMAIN session_timeouts \cup { new }
            /\ game_sessions'[new].current_level = levels[0]
            /\ IsNone(game_sessions'[new].current_image_name)
            /\ IsNone(game_sessions'[new].patches)
            /\ IsNone(game_sessions'[new].original_positions)
            /\ IsNone(game_sessions'[new].shuffled_positions)
            /\ \A sid \in DOMAIN game_sessions :
                  /\ game_sessions'[sid] = game_sessions[sid]
                  /\ session_timeouts'[sid] = session_timeouts[sid]

\* C9: resolve with no token or an unrecognised one adds a session under a
\* token that was not in the registry, at the first level of the catalog,
\* with no image and no arrangement, and leaves the existing sessions alone.
C9_FreshSession == [][C9_Step]_vars

\* a second session was allocated next to one that had moved to level_2
C9_Witness ==
    /\ resp.op = "resolve"
    /\ resp.token # resp.session_id
    /\ Cardinality(DOMAIN game_sessions) = 2
    /\ \E sid \in DOMAIN game_sessions :
          /\ Some(sid) # resp.token
          /\ game_sessions[sid].current_level = levels[1]

C10_Step ==
    ( /\ resp'.op = "resolve"
      /\ SessionKnown(game_sessions, resp'.session_id)
      /\ ~Expired(session_timeouts, Asked(resp'), now) ) =>
        /\ resp'.token = resp'.session_id
        /\ game_sessions' = game_sessions
        /\ DOMAIN session_timeouts' = DOMAIN session_timeouts
        /\ session_timeouts'[Asked(resp')] = now + SESSION_TIMEOUT_MINUTES
        /\ \A sid \in DOMAIN session_timeouts \ { Asked(resp') } :
              session_timeouts'[sid] = session_timeouts[sid]
        /\ uuid_count' = uuid_count

\* C10: resolve on a live session returns the same token and changes nothing
\* but the expiry: level, selected image and arrangement stay as they were.
C10_ResolveKeepsSession == [][C10_Step]_vars

\* a session holding a shuffled puzzle has been resolved
C10_Witness ==
    /\ resp.op = "resolve"
    /\ resp.token = resp.session_id
    /\ HasArrangement(game_sessions[Asked(resp)])
    /\ ~IsNone(game_sessions[Asked(resp)].current_image_name)

C11_Step ==
    resp'.op = "sweep" =>
        /\ \A sid \in DOMAIN session_timeouts :
              Expired(session_timeouts, sid, now) =>
                 /\ sid \notin DOMAIN game_sessions'
                 /\ sid \notin DOMAIN session_timeouts'
        /\ \A sid \in DOMAIN game_sessions :
              ( sid \in DOMAIN session_timeouts
                /\ ~Expired(session_timeouts, sid, now) ) =>
                 /\ sid \in DOMAIN game_sessions'
                 /\ sid \in DOMAIN session_timeouts'
                 /\ game_sessions'[sid] = game_sessions[sid]
                 /\ session_timeouts'[sid] = session_timeouts[sid]
        /\ DOMAIN game_sessions' \subseteq DOMAIN game_sessions

\* C11: when cleanup_expired_sessions() returns, no session whose expiry lay
\* before the clock is left in the registry, and every session whose expiry
\* did not lie before the clock is still there with the same fields and the
\* same expiry.
C11_SweepRemovesExactlyExpired == [][C11_Step]_vars

\* a sweep has removed one session and kept another whose expiry was exactly
\* the time of the sweep or later
C11_Witness ==
    /\ resp.op = "sweep"
    /\ uuid_count = 2
    /\ Cardinality(DOMAIN game_sessions) = 1
    /\ \E sid \in DOMAIN session_timeouts : session_timeouts[sid] >= now
    /\ now > SESSION_TIMEOUT_MINUTES

\* the sessions a sweep leaves in the registry when it runs: the step of
\* cleanup_expired_sessions() itself, or of /image, which sweeps first
C12_Step ==
    ( resp'.op \in { "sweep", "image" } /\ ~IsNone(last_access) ) =>
        ( now - Val(last_access).at < SESSION_TIMEOUT_MINUTES =>
             Val(last_access).sid \in DOMAIN game_sessions' )

\* C12: a session that an image, shuffle, swap, validate or next_level
\* request was served from less than SESSION_TIMEOUT_MINUTES ago is not
\* removed by the sweep.
C12_RecentAccessSurvivesSweep == [][C12_Step]_vars

C13_Step ==
    ( /\ resp'.op = "next_level"
      /\ SessionKnown(game_sessions, resp'.session_id)
      /\ LevelIndex(game_sessions[Asked(resp')].current_level) < PyLen(levels) - 1 ) =>
        LET sid == Asked(resp')
            old == game_sessions[sid]
            new == game_sessions'[sid]
        IN  /\ resp'.status = 200
            /\ DOMAIN game_sessions' = DOMAIN game_sessions
            /\ new.current_level = levels[LevelIndex(old.current_level) + 1]
            /\ resp'.level = Some(new.current_level)
            /\ IsNone(new.current_image_name)
            /\ IsNone(new.patches)
            /\ IsNone(new.original_positions)
            /\ IsNone(new.shuffled_positions)
            /\ \A index1, index2 \in -1 .. MaxIndex :
                  LET o == swap_patches(game_sessions', config_file', resp'.session_id,
                                        index1, index2)
                  IN  /\ o.r.status = 400
                      /\ o.r.error = "No puzzle to swap"
                      /\ o.s = game_sessions'
            /\ LET r == validate_puzzle(game_sessions', resp'.session_id)
                IN  /\ r.status = 400
                    /\ r.error = "No puzzle to validate"

C13_OnlyShuffleArranges ==
    \A sid \in DOMAIN game_sessions \cap DOMAIN game_sessions' :
        ( ~HasArrangement(game_sessions[sid]) /\ HasArrangement(game_sessions'[sid]) ) =>
            ( resp'.op = "shuffle" /\ resp'.status = 200 )

\* C13: next_level on a session that is not at the last level moves it to the
\* level that follows in the catalog and clears the selected image, the
\* tiles, the original order and the current list; swap and validate on the
\* session then answer with the no-puzzle error, and only a successful
\* shuffle gives a session without an arrangement one again.
C13_AdvanceClearsPuzzle == [][C13_Step /\ C13_OnlyShuffleArranges]_vars

\* next_level has moved a session that held a swapped puzzle to level_2
C13_Witness ==
    /\ resp.op = "next_level"
    /\ resp.status = 200
    /\ resp.level = Some(levels[1])
    /\ ~IsNone(resp.before)
    /\ ~IsIdentity(Val(resp.before))
    /\ ~HasArrangement(game_sessions[Asked(resp)])

\* the session is at the last level of the catalog
AtLastLevel(session) == LevelIndex(session.current_level) = PyLen(levels) - 1

\* a level field that is null names no level of the catalog
LevelUnset(session) == \A l \in DOMAIN image_metadata : session.current_level # l

\* {"message": "You have completed all levels!", "level": None}
Completed(r) == r.status = 200 /\ r.error = "" /\ IsNone(r.level)

C14_Step_null ==
    ( /\ resp'.op = "next_level"
      /\ SessionKnown(game_sessions, resp'.session_id)
      /\ AtLastLevel(game_sessions[Asked(resp')]) ) =>
        /\ Completed(resp')
        /\ LevelUnset(game_sessions'[Asked(resp')])

C14_Step ==
    ( /\ resp'.op = "next_level"
      /\ SessionKnown(game_sessions, resp'.session_id)
      /\ AtLastLevel(game_sessions[Asked(resp')]) ) =>
        /\ Completed(resp')
        /\ game_sessions' = game_sessions
        /\ AtLastLevel(game_sessions'[Asked(resp')])

C15_LevelInCatalog ==
    \A sid \in DOMAIN game_sessions :
        /\ LevelInCatalog(game_sessions[sid].current_level)
        /\ LevelIndex(game_sessions[sid].current_level) \in DOMAIN levels
        /\ levels[LevelIndex(game_sessions[sid].current_level)] =
              game_sessions[sid].current_level

\* a session was told it has completed all levels while another one is still
\* at the level it was created with
C15_Witness ==
    /\ resp.op = "next_level"
    /\ Completed(resp)
    /\ game_sessions[Asked(resp)].current_level = levels[PyLen(levels) - 1]
    /\ \E sid \in DOMAIN game_sessions :
          /\ sid # Asked(resp)
          /\ game_sessions[sid].current_level = levels[0]

\* both threads have answered a /swap request with 200
BothSwapped == \A t \in Threads : threads[t].pc = "done" /\ threads[t].status = 200

\* the list as it was when the first of the two requests arrived
RaceBase == Val(threads[CHOOSE t \in Threads : threads[t].alone].before)

\* C16: when two /swap requests on one session have both been served, by
\* threads running at the same time or one after the other, the session's
\* list is a permutation of 0..N*N-1 and is what the two swaps give when
\* applied one after the other, in one of the two orders.
C16_NoLostUpdate ==
    BothSwapped =>
        LET cur == Current(game_sessions[Val(threads[1].session_id)])
            one_two == SwapList(SwapList(RaceBase, threads[1].index1, threads[1].index2),
                                threads[2].index1, threads[2].index2)
            two_one == SwapList(SwapList(RaceBase, threads[2].index1, threads[2].index2),
                                threads[1].index1, threads[1].index2)
        IN  /\ IsPermutation(cur, PyLen(RaceBase))
            /\ cur \in { one_two, two_one }

\* the sessions other than the one a request was served from
Others(r) ==
    IF IsNone(Served(r)) THEN DOMAIN game_sessions
    ELSE DOMAIN game_sessions \ { Val(Served(r)) }

\* what session b gets from each puzzle request it can make, in the registry
\* reg with the configuration file and at time clock: the responses and the
\* session they leave
Outcomes(reg, file, clock, b) ==
    [ image |-> { [ r |-> o.r, b |-> o.s[b], t |-> o.t[b] ]
                    : o \in get_image(reg, Some(b), clock) },
      shuffle |-> { [ r |-> o.r, b |-> o.s[b] ]
                      : o \in shuffle_image(reg.s, file, Some(b)) },
      swap |-> [ index1 \in 0 .. 1 |->
                   LET o == swap_patches(reg.s, file, Some(b), index1, 1)
                   IN  [ r |-> o.r, b |-> o.s[b] ] ],
      validate |-> validate_puzzle(reg.s, Some(b)),
      next |-> LET o == next_level(reg.s, Some(b))
               IN  [ r |-> o.r, b |-> o.s[b] ] ]

SerialStep ==
    resp'.op \in PuzzleOps =>
        \A b \in Others(resp') :
            ( b \in DOMAIN session_timeouts /\ ~Expired(session_timeouts, b, now) ) =>
                /\ b \in DOMAIN game_sessions'
                /\ b \in DOMAIN session_timeouts'
                /\ game_sessions'[b] = game_sessions[b]
                /\ session_timeouts'[b] = session_timeouts[b]
                /\ Outcomes(Registry', config_file', now', b)
                     = Outcomes(Registry, config_file, now, b)

\* requests served one after the other: an image, shuffle, swap, validate or
\* next_level request served from one session leaves every other session
\* whose expiry has not passed in the registry with the same level, image,
\* arrangement and expiry, and the responses that session gets to its own
\* requests are the same after the request as before it (SpecPlayers)
SerialIndependent == [][SerialStep]_vars

\* thread t has answered an /image request for a session that was in the
\* registry, not expired, when the request arrived, while the other thread
\* served another player
ServedBeside(t) ==
    /\ threads[t].pc = "done"
    /\ ~IsNone(threads[t].answer)
    /\ SessionKnown(Val(threads[t].arrived).s, threads[t].session_id)
    /\ ~Expired(Val(threads[t].arrived).t, Val(threads[t].session_id), threads[t].clock)
    /\ \A u \in Threads \ { t } : threads[u].session_id # threads[t].session_id

\* C17: requests for different sessions are independent.  A request of
\* session B served while a request of another session A is served leaves B,
\* not expired, in the registry at its level, and is answered as it is
\* answered when it is served alone from the registry it arrived in.
C17_SessionsIndependent ==
    \A t \in Threads :
        ServedBeside(t) =>
            LET b == Val(threads[t].session_id)
                arrived == Val(threads[t].arrived)
            IN  /\ b \in DOMAIN game_sessions
                /\ game_sessions[b].current_level = arrived.s[b].current_level
                /\ Val(threads[t].answer) \in
                      { o.r : o \in get_image(arrived, threads[t].session_id,
                                              threads[t].clock) }

\* the grid size has changed since the session's puzzle was shuffled
GridChanged(session) ==
    PyLen(Current(session)) # get_grid_size(config_file) * get_grid_size(config_file)

C18_Step ==
    ( /\ resp'.op \in { "swap", "validate" }
      /\ SessionKnown(game_sessions, resp'.session_id)
      /\ HasArrangement(game_sessions[Asked(resp')])
      /\ GridChanged(game_sessions[Asked(resp')])
      /\ resp'.index1 \in DOMAIN Current(game_sessions[Asked(resp')])
      /\ resp'.index2 \in DOMAIN Current(game_sessions[Asked(resp')]) ) =>
        LET old == game_sessions[Asked(resp')]
            new == game_sessions'[Asked(resp')]
        IN  /\ resp'.status = 200
            /\ DOMAIN Current(new) = DOMAIN Current(old)
            /\ new.patches = old.patches
            /\ new.original_positions = old.original_positions
            /\ resp'.op = "swap" =>
                  Current(new) = SwapList(Current(old), resp'.index1, resp'.index2)
            /\ resp'.op = "validate" =>
                  /\ Current(new) = Current(old)
                  /\ resp'.is_correct = Some(IsIdentity(Current(old)))

\* C18: a change of the grid size takes effect at the next shuffle only.  On
\* a session shuffled at size N, swap and validate requests made after the
\* size was set to another value succeed and work on the N*N slots of the
\* arrangement the session holds.
C18_GridChangeWaitsForShuffle == [][C18_Step]_vars

\* the token a request presents names no session, or one whose expiry has
\* passed
UnknownOrExpired(session_id) ==
    /\ ~IsNone(session_id)
    /\ \/ ~SessionKnown(game_sessions, session_id)
       \/ Expired(session_timeouts, Val(session_id), now)

C19_Step ==
    ( /\ resp'.op \in { "shuffle", "swap", "validate", "next_level" }
      /\ UnknownOrExpired(resp'.session_id) ) =>
        \E new \in DOMAIN game_sessions' \ DOMAIN game_sessions :
            /\ new \in DOMAIN session_timeouts'
            /\ ~Expired(session_timeouts', new, now')

\* C19: a shuffle, swap, validate or next_level request that presents a
\* token unknown to the registry, or one whose expiry has passed, leaves the
\* registry with a new session issued for the caller.
C19_UnknownTokenRecovers == [][C19_Step]_vars

\* the session has no selected image, or one whose file is not on disk
NoImageToShuffle(session) ==
    \/ IsNone(session.current_image_name)
    \/ << session.current_level, Val(session.current_image_name) >> \notin image_files

C20_Step ==
    /\ ( /\ resp'.op = "shuffle"
         /\ SessionKnown(game_sessions, resp'.session_id)
         /\ NoImageToShuffle(game_sessions[Asked(resp')]) ) =>
           /\ resp'.status \in { 400, 404 }
           /\ resp'.error # ""
           /\ game_sessions'[Asked(resp')].patches = game_sessions[Asked(resp')].patches
           /\ game_sessions'[Asked(resp')].original_positions =
                 game_sessions[Asked(resp')].original_positions
           /\ game_sessions'[Asked(resp')].shuffled_positions =
                 game_sessions[Asked(resp')].shuffled_positions
    /\ \A sid \in DOMAIN game_sessions \cap DOMAIN game_sessions' :
          ( /\ ~IsNone(game_sessions'[sid].patches)
            /\ \/ game_sessions'[sid].patches # game_sessions[sid].patches
               \/ game_sessions'[sid].original_positions #
                     game_sessions[sid].original_positions ) =>
              /\ resp'.op = "shuffle"
              /\ resp'.status = 200
              /\ resp'.session_id = Some(sid)
              /\ ~NoImageToShuffle(game_sessions[sid])
    /\ \A sid \in DOMAIN game_sessions' \ DOMAIN game_sessions :
          ~HasArrangement(game_sessions'[sid])

\* C20: a session gets an arrangement only from a shuffle made while it has
\* a selected image.  A shuffle on a session with no selected image, or with
\* one whose file is not there, is answered with an error and leaves the
\* tiles, the original order and the current list of the session as they
\* were.
C20_OnlyShuffleWithImageArranges == [][C20_Step]_vars

\* a shuffle was refused for a missing image file on a session that holds
\* the swapped puzzle of an earlier image
C20_Witness ==
    /\ resp.op = "shuffle"
    /\ resp.status = 404
    /\ HasArrangement(game_sessions[Asked(resp)])
    /\ ~IsIdentity(Current(game_sessions[Asked(resp)]))
    /\ NoImageToShuffle(game_sessions[Asked(resp)])

\* the composed image shows the resized source: the slot in row r and column
\* c of the grid holds the tile cut from row r and column c of that image
ShowsSource(rendered, level, image, grid) ==
    /\ DOMAIN rendered = 0 .. (grid * grid - 1)
    /\ \A slot \in DOMAIN rendered :
          rendered[slot] = [ level |-> level, image |-> image,
                             edge |-> IMAGE_EDGE \div grid,
                             row |-> slot \div grid, col |-> slot % grid ]

\* C21: after a successful shuffle the session holds exactly N*N tiles for
\* the grid size N configured then, all of the same edge, original_positions
\* is 0..N*N-1, and the composed image, of /shuffle as of /swap, has the tile
\* original[current[slot]] in slot `slot`, row by row; composed in the original
\* order the tiles give the resized source image back, for every N of 2..10.
C21_ShuffleRoundTrip ==
    ( resp.op = "shuffle" /\ resp.status = 200 ) =>
        LET session == game_sessions[Asked(resp)]
            N == get_grid_size(config_file)
            patches == Val(session.patches)
            original == Val(session.original_positions)
            current == Current(session)
            rendered == RenderShuffle(patches, current)
        IN  /\ PyLen(patches) = N * N
            /\ \A k \in DOMAIN patches : patches[k].edge = IMAGE_EDGE \div N
            /\ original = PyRange(N * N)
            /\ DOMAIN rendered = 0 .. (N * N - 1)
            /\ \A slot \in DOMAIN rendered :
                  rendered[slot] = patches[original[current[slot]]]
            /\ RenderSwap(patches, current, N) = rendered
            /\ ShowsSource(RenderShuffle(patches, original), session.current_level,
                           Val(session.current_image_name), N)
            /\ \A grid \in MIN_GRID_SIZE .. MAX_GRID_SIZE :
                  LET tiles == Partition(session.current_level,
                                         Val(session.current_image_name), grid)
                  IN  /\ PyLen(tiles) = grid * grid
                      /\ ShowsSource(RenderShuffle(tiles, PyRange(PyLen(tiles))),
                                     session.current_level,
                                     Val(session.current_image_name), grid)

\* a shuffle at the lowered grid size has left the four tiles out of order
C21_Witness ==
    /\ resp.op = "shuffle"
    /\ resp.status = 200
    /\ get_grid_size(config_file) = MIN_GRID_SIZE
    /\ PyLen(Current(game_sessions[Asked(resp)])) = MIN_GRID_SIZE * MIN_GRID_SIZE
    /\ ~IsIdentity(Current(game_sessions[Asked(resp)]))

\* the stored grid size is one the form accepts
GridInRange(file) ==
    /\ get_grid_size(file) >= MIN_GRID_SIZE
    /\ get_grid_size(file) <= MAX_GRID_SIZE

\* C22: the grid size stays within 2..10 over every step, and an admin update
\* whose grid size is outside 2..10 is answered with an error and leaves the
\* stored grid size as it was.
C22_Step ==
    /\ GridInRange(config_file')
    /\ \A grid \in ConfigGrids, countdown_time \in ConfigCountdowns,
          password \in ConfigPasswords :
          ( /\ ~IsNone(grid)
            /\ Val(grid) < MIN_GRID_SIZE \/ Val(grid) > MAX_GRID_SIZE
            /\ UpdateConfig(grid, countdown_time, password) )
          => /\ resp'.status # 200
             /\ config_file' = config_file
             /\ get_grid_size(config_file') = get_grid_size(config_file)

C22_GridStaysInRange == [][C22_Step]_vars

\* an update was refused for its grid size while a stored size, other than
\* the default, stands
C22_Witness ==
    /\ resp.op = "config"
    /\ resp.status = 400
    /\ resp.error = "Grid size must be between 2 and 10"
    /\ get_grid_size(config_file) = MAX_GRID_SIZE

\* C23: a /validate request, whatever it answers, leaves every session's
\* level, selected image, tiles, original and current order as they were,
\* every expiry as it was, and the registry with the same tokens.
C23_Step ==
    resp'.op = "validate" =>
        /\ resp'.status \in { 200, 400 }
        /\ DOMAIN game_sessions' = DOMAIN game_sessions
        /\ DOMAIN session_timeouts' = DOMAIN session_timeouts
        /\ \A sid \in DOMAIN session_timeouts :
              session_timeouts'[sid] = session_timeouts[sid]
        /\ \A sid \in DOMAIN game_sessions :
              /\ game_sessions'[sid].current_level = game_sessions[sid].current_level
              /\ game_sessions'[sid].current_image_name
                    = game_sessions[sid].current_image_name
              /\ game_sessions'[sid].patches = game_sessions[sid].patches
              /\ game_sessions'[sid].original_positions
                    = game_sessions[sid].original_positions
              /\ game_sessions'[sid].shuffled_positions
                    = game_sessions[sid].shuffled_positions

C23_ValidateIsPureRead == [][C23_Step]_vars

\* a puzzle out of order was validated half a timeout window after the
\* session's expiry was last set
C23_Witness ==
    /\ resp.op = "validate"
    /\ resp.status = 200
    /\ resp.is_correct = Some(FALSE)
    /\ session_timeouts[Asked(resp)] < Expiry(now)

\* C24: clear_session(token) completes whether or not the token is known,
\* after it neither the session store nor the timeout store holds the token,
\* and every other session and every other expiry is as it was.
C24_Step ==
    resp'.op = "clear" =>
        LET sid == Asked(resp')
        IN  /\ resp'.status = 200
            /\ sid \notin DOMAIN game_sessions'
            /\ sid \notin DOMAIN session_timeouts'
            /\ DOMAIN game_sessions' = (DOMAIN game_sessions) \ {sid}
            /\ DOMAIN session_timeouts' = (DOMAIN session_timeouts) \ {sid}
            /\ \A other \in DOMAIN game_sessions' :
                  game_sessions'[other] = game_sessions[other]
            /\ \A other \in DOMAIN session_timeouts' :
                  session_timeouts'[other] = session_timeouts[other]

C24_ClearRemovesOnlyItsSession == [][C24_Step]_vars

\* a session was cleared while another, moved to the second level, remains
C24_Witness ==
    /\ resp.op = "clear"
    /\ Asked(resp) \in 1 .. uuid_count
    /\ Asked(resp) \notin DOMAIN game_sessions
    /\ \E other \in DOMAIN game_sessions :
          game_sessions[other].current_level = "level_2"

\* the dict a session starts from: first level, no image, no puzzle
IsFresh(session) ==
    /\ session.current_level = "level_1"
    /\ ~HasArrangement(session)
    /\ IsNone(session.patches)
    /\ IsNone(session.original_positions)

\* C25: sessions leave the registry only within an /image request, never
\* while the clock advances or another request is served, and only expired
\* ones leave; an /image request presenting the token of an expired session
\* is given a session created for it under a token that is neither the one
\* presented nor one the registry held, while the expired session is gone.
C25_Step ==
    /\ resp'.op # "image" =>
          /\ DOMAIN game_sessions \subseteq DOMAIN game_sessions'
          /\ DOMAIN session_timeouts \subseteq DOMAIN session_timeouts'
    /\ resp'.op = "image" =>
          /\ (DOMAIN game_sessions) \ (DOMAIN game_sessions')
                \subseteq ExpiredTokens(session_timeouts, now)
          /\ ( /\ SessionKnown(game_sessions, resp'.session_id)
               /\ Asked(resp') \in ExpiredTokens(session_timeouts, now) )
             => LET new == Val(resp'.token)
                IN  /\ new # Asked(resp')
                    /\ new \notin DOMAIN game_sessions
                    /\ new \in DOMAIN game_sessions'
                    /\ Asked(resp') \notin DOMAIN game_sessions'
                    /\ session_timeouts'[new] = Expiry(now)
                    /\ IsFresh(game_sessions'[new])

C25_ExpiredTokenGetsFreshSession == [][C25_Step]_vars

\* the first player's session expired and their next /image request, the
\* first request since, was answered with the second token
C25_Witness ==
    /\ resp.op = "image"
    /\ resp.status = 200
    /\ resp.session_id = Some(1)
    /\ resp.token = Some(2)
    /\ uuid_count = 2
    /\ now > SESSION_TIMEOUT_MINUTES
    /\ DOMAIN game_sessions = { 2 }

C26_Step ==
    ( /\ resp'.op = "swap"
      /\ resp'.status # 200
      /\ SessionKnown(game_sessions, resp'.session_id) ) =>
        /\ Asked(resp') \in DOMAIN game_sessions'
        /\ game_sessions'[Asked(resp')].shuffled_positions
              = game_sessions[Asked(resp')].shuffled_positions

\* C26: a /swap request answered with an error (invalid session, no puzzle,
\* invalid indices, or "Swap failed" while composing the image) leaves the
\* session's current order exactly as it was.
C26_FailedSwapLeavesOrder == [][C26_Step]_vars

\* C27: in every reachable state, with a /swap interleaved with a
\* /next_level or a /shuffle of the same session too, each session's patches,
\* original_positions and shuffled_positions are all None or all set: a swap
\* that read the arrangement before /next_level cleared it does not put a
\* part of it back.
C27_ArrangementAllOrNothing ==
    \A sid \in DOMAIN game_sessions :
        /\ IsNone(game_sessions[sid].patches)
              <=> IsNone(game_sessions[sid].original_positions)
        /\ IsNone(game_sessions[sid].patches)
              <=> IsNone(game_sessions[sid].shuffled_positions)

\* C28: after any sequence of get_or_create_session,
\* cleanup_expired_sessions and clear_session calls the session store and the
\* timeout store hold exactly the same tokens.
C28_StoresHoldSameTokens == DOMAIN game_sessions = DOMAIN session_timeouts

\* a sweep has run after the timeout passed, and of the two sessions created
\* the second is the one left
C28_Witness ==
    /\ resp.op = "sweep"
    /\ uuid_count = 2
    /\ now > SESSION_TIMEOUT_MINUTES
    /\ DOMAIN game_sessions = { 2 }
    /\ DOMAIN session_timeouts = { 2 }

\* C29: over every step, a session that stays in the registry keeps its
\* level or moves to the level one position further in the catalog, never to
\* an earlier one, and its level changes only in a /next_level request made
\* with its token.
C29_Step ==
    \A sid \in (DOMAIN game_sessions) \cap (DOMAIN game_sessions') :
        LET old == LevelIndex(game_sessions[sid].current_level)
            new == LevelIndex(game_sessions'[sid].current_level)
        IN  /\ old >= 0
            /\ new >= old
            /\ new <= old + 1
            /\ new # old =>
                  /\ resp'.op = "next_level"
                  /\ resp'.session_id = Some(sid)
                  /\ resp'.status = 200

C29_LevelOnlyMovesForward == [][C29_Step]_vars

\* a session moved to the second level has since been served an image there
C29_Witness ==
    /\ resp.op = "image"
    /\ resp.status = 200
    /\ SessionKnown(game_sessions, resp.session_id)
    /\ game_sessions[Asked(resp)].current_level = "level_2"
    /\ game_sessions[Asked(resp)].current_image_name = Some("c.jpg")

\* C30: in every reachable state each session's current_image_name is None
\* or an image the catalog lists under the session's current level; a session
\* that /next_level has just advanced names no image of the level it left.
C30_ImageOfCurrentLevel ==
    /\ \A sid \in DOMAIN game_sessions :
          \/ IsNone(game_sessions[sid].current_image_name)
          \/ /\ LevelInCatalog(game_sessions[sid].current_level)
             /\ Val(game_sessions[sid].current_image_name)
                   \in image_metadata[game_sessions[sid].current_level]
    /\ ( /\ resp.op = "next_level"
         /\ resp.status = 200
         /\ ~IsNone(resp.level) )
       => IsNone(game_sessions[Asked(resp)].current_image_name)

\* a session that had shuffled an image of the first level has advanced
C30_Witness ==
    /\ resp.op = "next_level"
    /\ resp.status = 200
    /\ resp.level = Some("level_2")
    /\ ~IsNone(resp.before)
    /\ game_sessions[Asked(resp)].current_level = "level_2"

C31_Step ==
    ( resp'.op = "config" /\ resp'.status # 200 ) =>
        /\ get_grid_size(config_file') = get_grid_size(config_file)
        /\ get_countdown_time(config_file') = get_countdown_time(config_file)

\* C31: an admin update answered with an error (wrong password, grid size
\* outside 2..10, countdown time outside 0..60) leaves the stored grid size and
\* the stored countdown time as they were, also when one of the two values it
\* carries is valid and the other is not.
C31_RejectedUpdateChangesNothing == [][C31_Step]_vars

====
